---- MODULE Spec2Model ----
(***************************************************************************)
(* OAuth error taxonomy of server/auth/errors.ts: the OAuthError base      *)
(* class, its sixteen standard subclasses, CustomOAuthError, the           *)
(* serializer toResponseObject and the registry OAUTH_ERRORS.              *)
(*                                                                         *)
(* JavaScript values are records [t, v]: t is the type tag, v the payload. *)
(* A class is a record [name, errorCode] (its static errorCode as seen     *)
(* through the class's prototype chain).  An instance is a record of its   *)
(* own properties; a response object is a function from its own keys.      *)
(***************************************************************************)
EXTENDS Naturals, Sequences, FiniteSets, TLC

VARIABLES errors, parsed, registry, ret

vars == <<errors, parsed, registry, ret>>

\* ---------------------------------------------------------------- bounds

\* Conditions the raising side keeps alive at once.
MaxErrors == 1

\* ------------------------------------------------------------ JS values

Undefined == [t |-> "undefined", v |-> ""]

Str(s) == [t |-> "string", v |-> s]

\* ToBoolean: undefined and the empty string are falsy, every other string
\* is truthy.
Truthy(x) == x.t = "string" /\ x.v # ""

\* ToPropertyKey of a computed key.
ToPropertyKey(x) == IF x.t = "string" THEN x.v ELSE "undefined"

\* ------------------------------------------------------------- classes

\* `static errorCode: string;` has no initializer: the base class's static
\* is undefined.
OAuthError == [name |-> "OAuthError", errorCode |-> Undefined]

InvalidRequestError ==
    [name |-> "InvalidRequestError", errorCode |-> Str("invalid_request")]

InvalidClientError ==
    [name |-> "InvalidClientError", errorCode |-> Str("invalid_client")]

InvalidGrantError ==
    [name |-> "InvalidGrantError", errorCode |-> Str("invalid_grant")]

UnauthorizedClientError ==
    [name |-> "UnauthorizedClientError", errorCode |-> Str("unauthorized_client")]

UnsupportedGrantTypeError ==
    [name |-> "UnsupportedGrantTypeError", errorCode |-> Str("unsupported_grant_type")]

InvalidScopeError ==
    [name |-> "InvalidScopeError", errorCode |-> Str("invalid_scope")]

AccessDeniedError ==
    [name |-> "AccessDeniedError", errorCode |-> Str("access_denied")]

ServerError ==
    [name |-> "ServerError", errorCode |-> Str("server_error")]

TemporarilyUnavailableError ==
    [name |-> "TemporarilyUnavailableError", errorCode |-> Str("temporarily_unavailable")]

UnsupportedResponseTypeError ==
    [name |-> "UnsupportedResponseTypeError", errorCode |-> Str("unsupported_response_type")]

UnsupportedTokenTypeError ==
    [name |-> "UnsupportedTokenTypeError", errorCode |-> Str("unsupported_token_type")]

\* A copied class whose code was not changed.
InvalidTokenError_CopiedCode ==
    [name |-> "InvalidTokenError", errorCode |-> Str("invalid_grant")]

InvalidTokenError ==
    [name |-> "InvalidTokenError", errorCode |-> Str("invalid_token")]

MethodNotAllowedError ==
    [name |-> "MethodNotAllowedError", errorCode |-> Str("method_not_allowed")]

TooManyRequestsError ==
    [name |-> "TooManyRequestsError", errorCode |-> Str("too_many_requests")]

InvalidClientMetadataError ==
    [name |-> "InvalidClientMetadataError", errorCode |-> Str("invalid_client_metadata")]

InsufficientScopeError ==
    [name |-> "InsufficientScopeError", errorCode |-> Str("insufficient_scope")]

\* CustomOAuthError declares no static of its own: the static it shows is
\* the one inherited from OAuthError.
CustomOAuthError == [name |-> "CustomOAuthError", errorCode |-> OAuthError.errorCode]

\* The sixteen subclasses with a static errorCode, in declaration order.
StandardVariants ==
    << InvalidRequestError, InvalidClientError, InvalidGrantError,
       UnauthorizedClientError, UnsupportedGrantTypeError, InvalidScopeError,
       AccessDeniedError, ServerError, TemporarilyUnavailableError,
       UnsupportedResponseTypeError, UnsupportedTokenTypeError,
       InvalidTokenError, MethodNotAllowedError, TooManyRequestsError,
       InvalidClientMetadataError, InsufficientScopeError >>

StandardClasses == {StandardVariants[i] : i \in DOMAIN StandardVariants}

IsClass(x) == "errorCode" \in DOMAIN x

\* ----------------------------------------------------------- instances

\* OAuthError's constructor: super(message), the parameter property
\* errorUri, and name = this.constructor.name.
New(cls, message, errorUri) ==
    [constructor |-> cls, message |-> message, errorUri |-> errorUri,
     name |-> cls.name]

\* CustomOAuthError's constructor: super(message, errorUri), then the
\* parameter property customErrorCode.
NewCustom(customErrorCode, message, errorUri) ==
    New(CustomOAuthError, message, errorUri)
        @@ ("customErrorCode" :> customErrorCode)

\* The getter without CustomOAuthError's override.
errorCode_NoOverride(this) == this.constructor.errorCode

\* The errorCode getter an instance resolves to: CustomOAuthError's override
\* returns the stored code, OAuthError's returns the constructor's static.
errorCode(this) ==
    IF this.constructor.name = "CustomOAuthError"
    THEN this.customErrorCode
    ELSE this.constructor.errorCode

\* A serializer that reports the class name (this.name) as the code.
toResponseObject_Name(this) ==
    LET response == [error |-> Str(this.name),
                     error_description |-> this.message]
    IN  IF Truthy(this.errorUri)
        THEN response @@ ("error_uri" :> this.errorUri)
        ELSE response

\* A serializer that puts the code where the description goes.
toResponseObject_CodeAsDescription(this) ==
    LET response == [error |-> errorCode(this),
                     error_description |-> errorCode(this)]
    IN  IF Truthy(this.errorUri)
        THEN response @@ ("error_uri" :> this.errorUri)
        ELSE response

toResponseObject(this) ==
    LET response == [error |-> errorCode(this),
                     error_description |-> this.message]
    IN  IF Truthy(this.errorUri)
        THEN response @@ ("error_uri" :> this.errorUri)
        ELSE response

\* ------------------------------------------------------------ registry

\* Entries whose values are paired with the neighbouring key.
RegistryEntries_Shifted ==
    [i \in DOMAIN StandardVariants |->
        [key |-> ToPropertyKey(StandardVariants[i].errorCode),
         value |-> StandardVariants[(i % Len(StandardVariants)) + 1]]]

\* The computed-key entries of the object literal, in source order.
RegistryEntries ==
    [i \in DOMAIN StandardVariants |->
        [key |-> ToPropertyKey(StandardVariants[i].errorCode),
         value |-> StandardVariants[i]]]

\* An object literal: a repeated key keeps the last value written.
OAUTH_ERRORS ==
    LET keys == {RegistryEntries[i].key : i \in DOMAIN RegistryEntries}
        last(k) == CHOOSE i \in DOMAIN RegistryEntries :
                      /\ RegistryEntries[i].key = k
                      /\ \A j \in DOMAIN RegistryEntries :
                            RegistryEntries[j].key = k => j <= i
    IN  [k \in keys |-> RegistryEntries[last(k)].value]

\* Property names every plain object inherits from Object.prototype.
ObjectPrototype ==
    {"constructor", "toString", "toLocaleString", "valueOf", "hasOwnProperty",
     "isPrototypeOf", "propertyIsEnumerable", "__proto__"}

\* reg[key] on the plain object: an own property, else what the prototype
\* chain gives, else undefined.
Lookup(reg, key) ==
    IF key \in DOMAIN reg THEN reg[key]
    ELSE IF key \in ObjectPrototype THEN [t |-> "inherited", v |-> key]
    ELSE Undefined

\* response[key] on a response object.
Get(response, key) ==
    IF key \in DOMAIN response THEN response[key] ELSE Undefined

\* new OAUTH_ERRORS[error](error_description, error_uri)
Reconstruct(reg, response) ==
    New(Lookup(reg, ToPropertyKey(response.error)),
        Get(response, "error_description"), Get(response, "error_uri"))

\* -------------------------------------------------------------- inputs

Messages == {"", "refresh token expired"}

\* The optional errorUri argument: omitted, or a string.
UriArgs == {Undefined, Str(""), Str("https://example.com/errors")}

StandardCodes == {c.errorCode.v : c \in StandardClasses}

CustomCodes == StandardCodes \cup {"", "foo_bar", "constructor"}

\* --------------------------------------------------------------- state

NoObject == [name |-> "none"]

NoArg == [none |-> TRUE]

\* The conditions an operation can be applied to: those alive on the raising
\* side and the one the receiving side reconstructed last.  A condition is
\* identified by its own properties.
Live == errors \cup (IF parsed = NoObject THEN {} ELSE {parsed})

Init ==
    /\ errors = {}
    /\ parsed = NoObject
    /\ registry = OAUTH_ERRORS
    /\ ret = [op |-> "none", this |-> NoObject, arg |-> NoArg, val |-> Undefined]

\* new V(message, errorUri?) for a standard variant or the exported base.
Construct(cls, m, u) ==
    /\ Cardinality(errors) < MaxErrors
    /\ errors' = errors \cup {New(cls, Str(m), u)}
    /\ ret' = [op |-> "new", this |-> New(cls, Str(m), u),
               arg |-> [message |-> Str(m), errorUri |-> u],
               val |-> Undefined]
    /\ UNCHANGED <<parsed, registry>>

\* new CustomOAuthError(code, message, errorUri?).
ConstructCustom(c, m, u) ==
    /\ Cardinality(errors) < MaxErrors
    /\ errors' = errors \cup {NewCustom(Str(c), Str(m), u)}
    /\ ret' = [op |-> "newCustom", this |-> NewCustom(Str(c), Str(m), u),
               arg |-> [customErrorCode |-> Str(c), message |-> Str(m),
                        errorUri |-> u],
               val |-> Undefined]
    /\ UNCHANGED <<parsed, registry>>

\* e.errorCode
ReadErrorCode(e) ==
    /\ ret' = [op |-> "errorCode", this |-> e, arg |-> NoArg,
               val |-> errorCode(e)]
    /\ UNCHANGED <<errors, parsed, registry>>

\* A serializer that consumes the URI it emitted.
ToResponseObject_ClearsUri(e) ==
    /\ ret' = [op |-> "toResponseObject", this |-> e, arg |-> NoArg,
               val |-> toResponseObject(e)]
    /\ errors' = {IF x = e THEN [x EXCEPT !.errorUri = Undefined] ELSE x :
                    x \in errors}
    /\ UNCHANGED <<parsed, registry>>

\* e.toResponseObject()
ToResponseObject(e) ==
    /\ ret' = [op |-> "toResponseObject", this |-> e, arg |-> NoArg,
               val |-> toResponseObject(e)]
    /\ UNCHANGED <<errors, parsed, registry>>

\* A response is on the wire with a string error field.
Incoming == ret.op = "toResponseObject" /\ ret.val.error.t = "string"

\* OAUTH_ERRORS[response.error]
LookupError ==
    /\ Incoming
    /\ ret' = [op |-> "lookup", this |-> NoObject, arg |-> ret.val.error,
               val |-> Lookup(registry, ToPropertyKey(ret.val.error))]
    /\ UNCHANGED <<errors, parsed, registry>>

\* Parsing, on a hit: new OAUTH_ERRORS[error](error_description, error_uri).
ParseResponse ==
    /\ Incoming
    /\ LET r == ret.val
       IN  /\ IsClass(Lookup(registry, ToPropertyKey(r.error)))
           /\ parsed' = Reconstruct(registry, r)
           /\ ret' = [op |-> "parse", this |-> parsed', arg |-> r,
                      val |-> Undefined]
    /\ UNCHANGED <<errors, registry>>

\* Parsing, on a miss: the caller wraps the unknown code as a
\* CustomOAuthError.
WrapResponse ==
    /\ Incoming
    /\ LET r == ret.val
       IN  /\ Lookup(registry, ToPropertyKey(r.error)) = Undefined
           /\ parsed' = NewCustom(r.error, Get(r, "error_description"),
                                  Get(r, "error_uri"))
           /\ ret' = [op |-> "wrap", this |-> parsed', arg |-> r,
                      val |-> Undefined]
    /\ UNCHANGED <<errors, registry>>

Next ==
    \/ \E cls \in StandardClasses \cup {OAuthError}, m \in Messages, u \in UriArgs :
          Construct(cls, m, u)
    \/ \E c \in CustomCodes, m \in Messages, u \in UriArgs :
          ConstructCustom(c, m, u)
    \/ \E e \in Live : ReadErrorCode(e)
    \/ \E e \in Live : ToResponseObject(e)
    \/ LookupError
    \/ ParseResponse
    \/ WrapResponse

Spec == Init /\ [][Next]_vars

\* -------------------------------------------------------------- claims

IsStandard(e) == e.constructor \in StandardClasses

IsCustom(e) == e.constructor.name = "CustomOAuthError"

ResponseKeys == {"error", "error_description", "error_uri"}

\* C1: a standard variant's response, looked up in the registry and
\* reconstructed from its error_description and error_uri, serializes to the
\* same response object again.
C1_RoundTrip ==
    \A e \in errors :
        IsStandard(e) =>
            LET r == toResponseObject(e)
            IN  /\ IsClass(Lookup(registry, ToPropertyKey(r.error)))
                /\ toResponseObject(Reconstruct(registry, r)) = r
                /\ (ret.op = "parse" /\ ret.arg = r)
                        => toResponseObject(parsed) = r

C1_Witness ==
    /\ ret.op = "parse"
    /\ \E e \in errors :
          /\ IsStandard(e)
          /\ Truthy(e.errorUri)
          /\ ret.arg = toResponseObject(e)
    /\ toResponseObject(parsed) = ret.arg
    /\ "error_uri" \in DOMAIN ret.arg

\* C2: the response has no error_uri key when the condition was built
\* without a URI, and has error_uri equal to u for every string u supplied,
\* the empty string included.
C2_UriIffSupplied ==
    ret.op = "toResponseObject" =>
        /\ ret.this.errorUri = Undefined => "error_uri" \notin DOMAIN ret.val
        /\ ret.this.errorUri.t = "string" =>
              /\ "error_uri" \in DOMAIN ret.val
              /\ ret.val.error_uri = ret.this.errorUri

\* C3: a standard variant's response has error equal to the variant's fixed
\* code and error_description equal to the message it was built with; the
\* code is the same for every instance of the variant.
C3_StandardCode ==
    /\ (ret.op = "new" /\ IsStandard(ret.this)) =>
          /\ toResponseObject(ret.this).error = ret.this.constructor.errorCode
          /\ toResponseObject(ret.this).error_description = ret.arg.message
    /\ (ret.op = "toResponseObject" /\ IsStandard(ret.this)) =>
          /\ ret.val.error = ret.this.constructor.errorCode
          /\ ret.val.error.v \in StandardCodes
          /\ ret.val.error_description = ret.this.message
    /\ \A e1, e2 \in Live :
          (IsStandard(e1) /\ e1.constructor = e2.constructor) =>
              toResponseObject(e1).error = toResponseObject(e2).error

C3_Witness ==
    /\ ret.op = "toResponseObject"
    /\ ret.this \in errors
    /\ IsStandard(ret.this)
    /\ ret.val.error = Str("invalid_grant")
    /\ ret.val.error_description = Str("refresh token expired")

\* C4: the registry's keys are exactly the sixteen pairwise distinct standard
\* codes, the entry under key c is the variant whose code is c, an instance
\* built from it reports c, and no custom code has an entry.
C4_RegistryBijection ==
    /\ Cardinality(DOMAIN registry) = 16
    /\ \A i, j \in DOMAIN StandardVariants :
          i # j => StandardVariants[i].errorCode # StandardVariants[j].errorCode
    /\ \A V \in StandardClasses :
          /\ V.errorCode.t = "string"
          /\ Lookup(registry, V.errorCode.v) = V
    /\ \A c \in DOMAIN registry :
          /\ registry[c] \in StandardClasses
          /\ registry[c].errorCode = Str(c)
    /\ \A c \in CustomCodes \ StandardCodes : c \notin DOMAIN registry
    /\ (ret.op = "lookup" /\ ret.arg.v \in StandardCodes) =>
          /\ IsClass(ret.val)
          /\ ret.val.errorCode = ret.arg
    /\ ret.op = "parse" => errorCode(parsed) = ret.arg.error

C4_Witness ==
    /\ ret.op = "lookup"
    /\ IsClass(ret.val)
    /\ ret.val \in StandardClasses
    /\ ret.val.errorCode = ret.arg

\* C5: looking up a string that is not a standard code yields the absent
\* outcome (undefined), never some other value.
C5_AbsentForUnknown ==
    (ret.op = "lookup" /\ ret.arg.v \notin StandardCodes) => ret.val = Undefined

\* C6: a custom condition reports the code it was built with and serializes
\* with that code and its message; wrapping a response whose code the
\* registry lacks and serializing again preserves code and description.
C6_CustomVerbatim ==
    /\ ret.op = "newCustom" =>
          /\ errorCode(ret.this) = ret.arg.customErrorCode
          /\ toResponseObject(ret.this).error = ret.arg.customErrorCode
          /\ toResponseObject(ret.this).error_description = ret.arg.message
    /\ (ret.op = "errorCode" /\ IsCustom(ret.this)) =>
          ret.val = ret.this.customErrorCode
    /\ ret.op = "wrap" =>
          /\ IsCustom(parsed)
          /\ errorCode(parsed) = ret.arg.error
          /\ toResponseObject(parsed).error = ret.arg.error
          /\ toResponseObject(parsed).error_description
                = ret.arg.error_description

C6_Witness ==
    /\ ret.op = "wrap"
    /\ ret.arg.error = Str("foo_bar")
    /\ ret.arg.error_description = Str("refresh token expired")
    /\ toResponseObject(parsed).error = Str("foo_bar")

\* C7: every condition built through an exported class serializes to a
\* well-formed response: string error, string error_description, optionally
\* a string error_uri, and no other field.
C7_WellFormed ==
    ret.op = "toResponseObject" =>
        /\ DOMAIN ret.val \subseteq ResponseKeys
        /\ {"error", "error_description"} \subseteq DOMAIN ret.val
        /\ \A k \in DOMAIN ret.val : ret.val[k].t = "string"

\* C8: no custom condition has the empty string as its code, and no
\* serialized response of a custom condition has an empty error field.
C8_CustomCodeNonEmpty ==
    /\ \A e \in Live : IsCustom(e) => e.customErrorCode # Str("")
    /\ (ret.op = "toResponseObject" /\ IsCustom(ret.this)) =>
          ret.val.error # Str("")

\* C9: no operation changes an existing condition or the registry, a
\* reconstructed condition is replaced only by parsing, and serializing the
\* same condition twice gives equal results.
C9_NothingMutated ==
    [][ /\ errors \subseteq errors'
        /\ registry' = registry
        /\ registry = OAUTH_ERRORS
        /\ parsed' # parsed => ret'.op \in {"parse", "wrap"}
        /\ ret'.op \in {"errorCode", "toResponseObject", "lookup"}
              => errors' = errors
        /\ (ret.op = "toResponseObject" /\ ret'.op = "toResponseObject"
              /\ ret'.this = ret.this) => ret'.val = ret.val
        /\ ret'.op = "toResponseObject" => ret'.this \in errors' \cup {parsed'}
      ]_vars

C9_Witness ==
    /\ ret.op = "toResponseObject"
    /\ ret.this \in errors
    /\ Truthy(ret.this.errorUri)
    /\ parsed # NoObject
    /\ parsed # ret.this
    /\ registry = OAUTH_ERRORS

\* C10: a custom condition built with a standard code serializes to the same
\* response as the standard variant for that code built with the same
\* message and URI; the response depends only on (code, message, URI); and
\* parsing the response yields the standard variant, not a custom condition.
C10_AliasInvisible ==
    /\ \A e \in Live :
          (IsCustom(e) /\ e.customErrorCode.v \in StandardCodes) =>
              LET r == toResponseObject(e)
                  V == Lookup(registry, ToPropertyKey(r.error))
              IN  /\ V \in StandardClasses
                  /\ r = toResponseObject(New(V, e.message, e.errorUri))
                  /\ Reconstruct(registry, r).constructor = V
                  /\ ~IsCustom(Reconstruct(registry, r))
    /\ \A e1, e2 \in Live :
          (/\ errorCode(e1) = errorCode(e2)
           /\ e1.message = e2.message
           /\ e1.errorUri = e2.errorUri)
              => toResponseObject(e1) = toResponseObject(e2)
    /\ ret.op = "parse" => IsStandard(parsed)

C10_Witness ==
    /\ ret.op = "parse"
    /\ \E e \in errors :
          /\ IsCustom(e)
          /\ ret.arg = toResponseObject(e)
    /\ IsStandard(parsed)
    /\ toResponseObject(parsed) = ret.arg

====
